---- MODULE Spec2Model ----
(***************************************************************************)
(* Model of src/planner.py, the "Fueling Strategy & Energy Calculator".    *)
(*                                                                         *)
(* The script is a Streamlit page: it is run once when the page opens and  *)
(* is re-run from the top every time one of its six sidebar widgets        *)
(* changes.  Each run starts in a fresh namespace: a widget change leaves   *)
(* the six widget values and nothing else, and the run that follows        *)
(* computes every variable anew.  A state of the model is the widget       *)
(* values and the script's variables; the actions are the widget changes   *)
(* and the run of the whole script.                                        *)
(*                                                                         *)
(* Numbers.  The widgets deliver floats.  The model draws whole numbers    *)
(* (km, kg, km/h, kcal), for which every float operation of the script is  *)
(* exact, except the 500 sample distances i*distance/499 of np.linspace.   *)
(* These are kept exactly as the integer i*distance, in units of 1/499 km, *)
(* and the energies of the curve in units of 1/499 kcal.  499 is prime and *)
(* the distances of the model are below 499, so an interior sample never   *)
(* falls on a whole kilometre and the float comparison and floor of the    *)
(* script agree with the exact ones.  Text is a sequence of one-character  *)
(* strings.                                                                *)
(***************************************************************************)
EXTENDS Integers, Sequences, FiniteSets, TLC

\* Bounds on the values typed into the widgets.
MaxDistance == 4
MaxWeight == 1
MaxSpeed == 7
MaxInterval == 3
MaxStart == 4
MaxKcal == 1

\* The widgets' default values (value=...) and minimum values (min_value=...).
\* The speed and interval widgets have min_value=0.1: the least whole number
\* they accept is 1.
DefaultDistance == 42
DefaultWeight == 70
DefaultSpeed == 10
DefaultInterval == 4
DefaultStart == 5
DefaultKcal == 87
MinDistance == 1
MinWeight == 1
MinSpeed == 1
MinInterval == 1
MinStart == 0
MinKcal == 1

\* np.linspace(0, distance, 500)
NumSamples == 500
LastSample == NumSamples - 1

VARIABLES
    pc,                     \* "called": the computation is about to run; "returned": it ran
    distance, weight, speed, fuel_interval, fuel_start, fuel_kcal,
    outcome,                \* "ok", or "exception" when the run was aborted by a Python exception
    hours, minutes, seconds, formatted_time,
    initial_energy, total_calories_burned,
    fueling_points,         \* sequence of stop distances
    stops_up_to_d,          \* [0..LastSample -> Int]
    energy_points,          \* [0..LastSample -> Int], in 1/499 kcal
    energy_nan,             \* the samples whose energy is NaN
    stops_count, final_energy,
    shown_fuel,             \* "total": the "Total Fuel Added" line was written; "none": the
                            \* "No fueling stops planned" line; "unwritten": neither
    total_fuel_added,       \* the number written in the "Total Fuel Added" line
    stops_energy            \* sequence, energy plotted at each fueling stop

params == <<distance, weight, speed, fuel_interval, fuel_start, fuel_kcal>>
results == <<outcome, hours, minutes, seconds, formatted_time, initial_energy,
             total_calories_burned, fueling_points, stops_up_to_d, energy_points,
             energy_nan, stops_count, final_energy, shown_fuel, total_fuel_added,
             stops_energy>>
vars == <<pc, params, results>>

----------------------------------------------------------------------------
\* Arithmetic helpers

\* floor(a / b) for b # 0: Python's // and np.floor of a quotient
FloorDiv(a, b) == IF b > 0 THEN a \div b ELSE (-a) \div (-b)

\* ceil(a / b) for b # 0
CeilDiv(a, b) == -FloorDiv(-a, b)

----------------------------------------------------------------------------
\* 1. Race time.  total_time_seconds is the fraction distance*3600 / speed.

\* int(total_time_seconds // 3600)
Hours(d, s) == FloorDiv(d * 3600, s * 3600)

\* int((total_time_seconds % 3600) // 60); x % 3600 = x - 3600 * floor(x / 3600)
Minutes(d, s) == FloorDiv(d * 3600 - 3600 * s * FloorDiv(d * 3600, s * 3600), s * 60)

\* Slip: round(total_time_seconds % 60) instead of int()
SecondsRounded(d, s) ==
    FloorDiv(2 * (d * 3600 - 60 * s * FloorDiv(d * 3600, s * 60)) + s, 2 * s)

\* int(total_time_seconds % 60); the remainder is >= 0, so int() is a floor
Seconds(d, s) == FloorDiv(d * 3600 - 60 * s * FloorDiv(d * 3600, s * 60), s)

DigitChars == <<"0", "1", "2", "3", "4", "5", "6", "7", "8", "9">>

RECURSIVE Digits(_)
\* the decimal digits of n >= 0
Digits(n) == IF n < 10 THEN <<DigitChars[n + 1]>>
             ELSE Digits(n \div 10) \o <<DigitChars[(n % 10) + 1]>>

\* f"{n:02d}": sign, then the digits padded with zeros to a total width of 2
Format02d(n) == IF n < 0 THEN <<"-">> \o Digits(-n)
                ELSE IF n < 10 THEN <<"0">> \o Digits(n)
                ELSE Digits(n)

\* f"{hours:02d}:{minutes:02d}:{seconds:02d}"
FormattedTime(h, m, s) == Format02d(h) \o <<":">> \o Format02d(m) \o <<":">> \o Format02d(s)

----------------------------------------------------------------------------
\* 2. Energy

\* Slip: the liver allowance left out
InitialEnergyMuscleOnly(w) == w * 24

InitialEnergy(w) == w * 24 + 400

TotalCaloriesBurned(w, d) == w * d

----------------------------------------------------------------------------
\* 3. Fueling stops

\* Slip: the stop value included, as np.arange(start, stop + step, step) would
ArangeClosed(start, stop, step) ==
    LET n == FloorDiv(stop - start, step) + 1
    IN  [i \in 1..(IF n > 0 THEN n ELSE 0) |-> start + (i - 1) * step]

\* np.arange(start, stop, step): ceil((stop - start) / step) values start + i*step
Arange(start, stop, step) ==
    LET n == CeilDiv(stop - start, step)
    IN  [i \in 1..(IF n > 0 THEN n ELSE 0) |-> start + (i - 1) * step]

FuelingPoints(d, fi, fs) == IF fs < d THEN Arange(fs, d, fi) ELSE <<>>

\* d_points[i] * 499
DPoint(i, d) == i * d

\* Slip: the "+ 1" left out, so that the stop at fuel_start is not counted
StopsUpToDNoFirst(i, d, fi, fs) ==
    IF DPoint(i, d) < fs * LastSample THEN 0
    ELSE IF fi = 0 THEN 0
    ELSE FloorDiv(DPoint(i, d) - fs * LastSample, fi * LastSample)

\* stops_up_to_d[i]; with fuel_interval = 0 the quotient is inf or NaN and the
\* entry has no integer value (0 stands in; see EnergyNan)
StopsUpToD(i, d, fi, fs) ==
    IF DPoint(i, d) < fs * LastSample THEN 0
    ELSE IF fi = 0 THEN 0
    ELSE FloorDiv(DPoint(i, d) - fs * LastSample, fi * LastSample) + 1

\* energy_points[i] * 499, from st = stops_up_to_d[i]
EnergyPoint(i, st, d, w, fk) ==
    LastSample * (InitialEnergy(w) + st * fk) - w * DPoint(i, d)

\* With fuel_interval = 0 a sample at or past fuel_start divides by zero: at
\* d = fuel_start it is 0/0 = NaN, past it inf (numpy warns and goes on).
EnergyNan(d, fi, fs) ==
    {i \in 0..LastSample : fi = 0 /\ DPoint(i, d) >= fs * LastSample}

\* Slip: "<=" for "<" in the guard
StopsCountFromStartAtFinish(d, fi, fs) == IF fs <= d THEN FloorDiv(d - fs, fi) + 1 ELSE 0

\* Slip: the "+ 1" left out
StopsCountNoFirst(d, fi, fs) == IF fs < d THEN FloorDiv(d - fs, fi) ELSE 0

StopsCount(d, fi, fs) == IF fs < d THEN FloorDiv(d - fs, fi) + 1 ELSE 0

FinalEnergy(d, w, fi, fs, fk) ==
    InitialEnergy(w) + StopsCount(d, fi, fs) * fk - TotalCaloriesBurned(w, d)

\* Slip: the "+ 1" left out, a stop plotted with the stops before it only
StopsEnergyBefore(d, w, fi, fs, fk) ==
    LET fp == FuelingPoints(d, fi, fs)
    IN  [k \in 1..Len(fp) |->
            InitialEnergy(w) + FloorDiv(fp[k] - fs, fi) * fk - w * fp[k]]

\* stops_energy, computed when fueling_points.size > 0
StopsEnergy(d, w, fi, fs, fk) ==
    LET fp == FuelingPoints(d, fi, fs)
    IN  [k \in 1..Len(fp) |->
            InitialEnergy(w) + (FloorDiv(fp[k] - fs, fi) + 1) * fk - w * fp[k]]

----------------------------------------------------------------------------
\* The run of the script

\* distance / speed raises ZeroDivisionError
RaisesAtTime(s) == s = 0

\* np.arange with a zero step raises
RaisesAtArange(d, fi, fs) == fs < d /\ fi = 0

NoCurve == [i \in 0..LastSample |-> 0]

\* The whole script, from the widget values to the last value it computes.
Script(d, w, s, fi, fs, fk) ==
    /\ pc' = "returned"
    /\ distance' = d /\ weight' = w /\ speed' = s
    /\ fuel_interval' = fi /\ fuel_start' = fs /\ fuel_kcal' = fk
    /\ IF RaisesAtTime(s)
       THEN /\ outcome' = "exception"
            /\ hours' = 0 /\ minutes' = 0 /\ seconds' = 0 /\ formatted_time' = <<>>
            /\ initial_energy' = 0 /\ total_calories_burned' = 0
       ELSE /\ hours' = Hours(d, s)
            /\ minutes' = Minutes(d, s)
            /\ seconds' = Seconds(d, s)
            /\ formatted_time' = FormattedTime(Hours(d, s), Minutes(d, s), Seconds(d, s))
            /\ initial_energy' = InitialEnergy(w)
            /\ total_calories_burned' = TotalCaloriesBurned(w, d)
            /\ outcome' = IF RaisesAtArange(d, fi, fs) THEN "exception" ELSE "ok"
    /\ IF RaisesAtTime(s) \/ RaisesAtArange(d, fi, fs)
       THEN /\ fueling_points' = <<>>
            /\ stops_up_to_d' = NoCurve /\ energy_points' = NoCurve /\ energy_nan' = {}
            /\ stops_count' = 0 /\ final_energy' = 0
            /\ shown_fuel' = "unwritten" /\ total_fuel_added' = 0
            /\ stops_energy' = <<>>
       ELSE /\ fueling_points' = FuelingPoints(d, fi, fs)
            /\ stops_up_to_d' = [i \in 0..LastSample |-> StopsUpToD(i, d, fi, fs)]
            /\ energy_points' = [i \in 0..LastSample |->
                                    EnergyPoint(i, stops_up_to_d'[i], d, w, fk)]
            /\ energy_nan' = EnergyNan(d, fi, fs)
            /\ stops_count' = StopsCount(d, fi, fs)
            /\ final_energy' = FinalEnergy(d, w, fi, fs, fk)
            /\ shown_fuel' = IF Len(FuelingPoints(d, fi, fs)) > 0 THEN "total" ELSE "none"
            /\ total_fuel_added' = IF Len(FuelingPoints(d, fi, fs)) > 0
                                   THEN StopsCount(d, fi, fs) * fk ELSE 0
            /\ stops_energy' = StopsEnergy(d, w, fi, fs, fk)

----------------------------------------------------------------------------
\* The page: opened with the widgets at their defaults, re-run on every change

\* Values a widget accepts: at least its min_value; the default is always there
DistanceInputs == (MinDistance..MaxDistance) \cup {DefaultDistance}
WeightInputs == (MinWeight..MaxWeight) \cup {DefaultWeight}
SpeedInputs == (MinSpeed..MaxSpeed) \cup {DefaultSpeed}
IntervalInputs == (MinInterval..MaxInterval) \cup {DefaultInterval}
StartInputs == (MinStart..MaxStart) \cup {DefaultStart}
KcalInputs == (MinKcal..MaxKcal) \cup {DefaultKcal}

\* Nothing has been computed yet
Blank ==
    /\ outcome = "ok"
    /\ hours = 0 /\ minutes = 0 /\ seconds = 0 /\ formatted_time = <<>>
    /\ initial_energy = 0 /\ total_calories_burned = 0
    /\ fueling_points = <<>>
    /\ stops_up_to_d = NoCurve /\ energy_points = NoCurve /\ energy_nan = {}
    /\ stops_count = 0 /\ final_energy = 0
    /\ shown_fuel = "unwritten" /\ total_fuel_added = 0
    /\ stops_energy = <<>>

Init ==
    /\ pc = "called"
    /\ distance = DefaultDistance /\ weight = DefaultWeight /\ speed = DefaultSpeed
    /\ fuel_interval = DefaultInterval /\ fuel_start = DefaultStart
    /\ fuel_kcal = DefaultKcal
    /\ Blank

\* The script runs with the current widget values
Run ==
    /\ pc = "called"
    /\ Script(distance, weight, speed, fuel_interval, fuel_start, fuel_kcal)

\* A widget change: the new value is kept and the script is run again from
\* the top, none of the last run's variables surviving
Rerun(d, w, s, fi, fs, fk) ==
    /\ pc = "returned"
    /\ pc' = "called"
    /\ distance' = d /\ weight' = w /\ speed' = s
    /\ fuel_interval' = fi /\ fuel_start' = fs /\ fuel_kcal' = fk
    /\ outcome' = "ok"
    /\ hours' = 0 /\ minutes' = 0 /\ seconds' = 0 /\ formatted_time' = <<>>
    /\ initial_energy' = 0 /\ total_calories_burned' = 0
    /\ fueling_points' = <<>>
    /\ stops_up_to_d' = NoCurve /\ energy_points' = NoCurve /\ energy_nan' = {}
    /\ stops_count' = 0 /\ final_energy' = 0
    /\ shown_fuel' = "unwritten" /\ total_fuel_added' = 0
    /\ stops_energy' = <<>>

SetDistance ==
    \E v \in DistanceInputs \ {distance} :
        Rerun(v, weight, speed, fuel_interval, fuel_start, fuel_kcal)

SetWeight ==
    \E v \in WeightInputs \ {weight} :
        Rerun(distance, v, speed, fuel_interval, fuel_start, fuel_kcal)

SetSpeed ==
    \E v \in SpeedInputs \ {speed} :
        Rerun(distance, weight, v, fuel_interval, fuel_start, fuel_kcal)

SetFuelInterval ==
    \E v \in IntervalInputs \ {fuel_interval} :
        Rerun(distance, weight, speed, v, fuel_start, fuel_kcal)

SetFuelStart ==
    \E v \in StartInputs \ {fuel_start} :
        Rerun(distance, weight, speed, fuel_interval, v, fuel_kcal)

SetFuelKcal ==
    \E v \in KcalInputs \ {fuel_kcal} :
        Rerun(distance, weight, speed, fuel_interval, fuel_start, v)

Next ==
    \/ Run
    \/ SetDistance
    \/ SetWeight
    \/ SetSpeed
    \/ SetFuelInterval
    \/ SetFuelStart
    \/ SetFuelKcal

Spec == Init /\ [][Next]_vars

----------------------------------------------------------------------------
\* The computation alone (lines 99-132 and the display that follows), handed
\* parameters that did not pass through the widgets' min_value guards.

MaxCoreSpeed == 2

CoreSpeeds == (-1)..MaxCoreSpeed
CoreIntervals == (-1)..MaxInterval

InitCore ==
    /\ pc = "called"
    /\ distance \in MinDistance..MaxDistance
    /\ weight \in MinWeight..MaxWeight
    /\ speed \in CoreSpeeds
    /\ fuel_interval \in CoreIntervals
    /\ fuel_start \in MinStart..MaxStart
    /\ fuel_kcal \in MinKcal..MaxKcal
    /\ Blank

NextCore == Run

SpecCore == InitCore /\ [][NextCore]_vars

TypeOK ==
    /\ pc \in {"called", "returned"}
    /\ outcome \in {"ok", "exception"}
    /\ shown_fuel \in {"total", "none", "unwritten"}

----------------------------------------------------------------------------
\* Properties

\* The script ran to its end
Done == pc = "returned" /\ outcome = "ok"

AtDefaults ==
    /\ distance = DefaultDistance /\ weight = DefaultWeight /\ speed = DefaultSpeed
    /\ fuel_interval = DefaultInterval /\ fuel_start = DefaultStart
    /\ fuel_kcal = DefaultKcal

\* The stop count function of the specification, at a whole distance x:
\* 0 before fuel_start, floor((x - fuel_start) / fuel_interval) + 1 from there on
StopCountAt(x) ==
    IF x < fuel_start THEN 0 ELSE FloorDiv(x - fuel_start, fuel_interval) + 1

\* The k-th fueling position, k = 1, 2, ...
StopPosition(k) == fuel_start + (k - 1) * fuel_interval

\* Reading a text back: the value of a sequence of digits
DigitValue(c) == CHOOSE k \in 0..9 : DigitChars[k + 1] = c

RECURSIVE Decode(_)
Decode(t) == IF Len(t) = 0 THEN 0
             ELSE 10 * Decode(SubSeq(t, 1, Len(t) - 1)) + DigitValue(t[Len(t)])

IsPadded(t, n) ==
    /\ Len(t) >= 2
    /\ \A i \in 1..Len(t) : \E k \in 0..9 : DigitChars[k + 1] = t[i]
    /\ Len(t) > 2 => t[1] # "0"
    /\ Decode(t) = n

Colons(t) == {i \in 1..Len(t) : t[i] = ":"}

\* C1: the stop count of the summary is the number of entries of the fueling-stop
\* list, and the total fuel added is that count times fuel_kcal.
C1_StopCountIsListLength ==
    Done => /\ stops_count = Len(fueling_points)
            /\ total_fuel_added = Len(fueling_points) * fuel_kcal

C3_FinalEnergyIsEndOfCurve ==
    Done => /\ final_energy =
                 initial_energy + StopCountAt(distance) * fuel_kcal - weight * distance
            /\ LastSample * final_energy = energy_points[LastSample]

\* C4: with fuel_start >= distance there is no fueling stop, no fuel is added and
\* final_energy is initial_energy - weight * distance.
C4_NoStopFromFinishOn ==
    (Done /\ fuel_start >= distance) =>
        /\ fueling_points = <<>>
        /\ stops_count = 0
        /\ stops_count * fuel_kcal = 0
        /\ total_fuel_added = 0
        /\ shown_fuel = "none"
        /\ final_energy = initial_energy - weight * distance

C4_Witness ==
    /\ Done /\ fuel_start = distance /\ shown_fuel = "none"
    /\ final_energy = initial_energy - weight * distance

\* C5: minutes and seconds are in 0..59, hours is not wrapped, the three make up
\* the elapsed seconds distance / speed * 3600 truncated to a whole number, and the
\* text is the three fields, each padded with zeros to two digits, joined by ":".
C5_RaceTimeFields ==
    Done =>
        /\ minutes \in 0..59
        /\ seconds \in 0..59
        /\ hours >= 0
        /\ hours * 3600 + minutes * 60 + seconds = (distance * 3600) \div speed
        /\ Cardinality(Colons(formatted_time)) = 2
        /\ \E i, j \in Colons(formatted_time) :
              /\ i < j
              /\ IsPadded(SubSeq(formatted_time, 1, i - 1), hours)
              /\ IsPadded(SubSeq(formatted_time, i + 1, j - 1), minutes)
              /\ IsPadded(SubSeq(formatted_time, j + 1, Len(formatted_time)), seconds)

\* a time with a fraction of a second to cut off
C5_Witness ==
    /\ Done /\ (distance * 3600) % speed # 0
    /\ 2 * ((distance * 3600) % speed) >= speed
    /\ seconds > 0

\* C6: along the curve the stop count at a sample is the number of fueling
\* positions fuel_start + k * fuel_interval at or before it, the first one being
\* stop #1; from a sample to the next the reserve falls by weight times the
\* distance between them and rises by fuel_kcal for every stop passed, so that it
\* falls strictly, with slope -weight, where no stop is passed.
C6_CurveFallsAndJumps ==
    Done =>
        /\ \A i \in 0..LastSample :
              LET st == stops_up_to_d[i]
              IN  /\ st >= 0
                  /\ (st = 0) <=> (DPoint(i, distance) < fuel_start * LastSample)
                  /\ st > 0 =>
                        /\ StopPosition(st) * LastSample <= DPoint(i, distance)
                        /\ DPoint(i, distance) < StopPosition(st + 1) * LastSample
        /\ \A i \in 0..(LastSample - 1) :
              /\ energy_points[i + 1] - energy_points[i] =
                    LastSample * fuel_kcal * (stops_up_to_d[i + 1] - stops_up_to_d[i])
                    - weight * (DPoint(i + 1, distance) - DPoint(i, distance))
              /\ stops_up_to_d[i + 1] = stops_up_to_d[i] =>
                    energy_points[i + 1] < energy_points[i]

\* a stretch between two stops, and the second stop's jump
C6_Witness ==
    /\ Done
    /\ \E i \in 1..(LastSample - 1) :
          /\ stops_up_to_d[i] >= 1
          /\ stops_up_to_d[i - 1] = stops_up_to_d[i]
          /\ stops_up_to_d[i + 1] = stops_up_to_d[i] + 1
          /\ energy_points[i + 1] > energy_points[i]

\* C7: with fuel_start < distance the fueling-stop list is fuel_start,
\* fuel_start + interval, ... : every term below distance and none at or past it,
\* in increasing order; otherwise it is empty.
C7_FuelingPointsBelowDistance ==
    Done =>
        IF fuel_start < distance
        THEN /\ \A k \in 1..Len(fueling_points) :
                   /\ fueling_points[k] = StopPosition(k)
                   /\ fueling_points[k] < distance
                   /\ k > 1 => fueling_points[k - 1] < fueling_points[k]
             /\ StopPosition(Len(fueling_points) + 1) >= distance
        ELSE fueling_points = <<>>

\* the next term is the finish itself, and is left out
C7_Witness ==
    /\ Done /\ Len(fueling_points) >= 2
    /\ StopPosition(Len(fueling_points) + 1) = distance

\* C8: the reference defaults give 04:12:00, 2080, 2940, 10 stops, 870 and 10.
C8_ReferenceDefaults ==
    (Done /\ AtDefaults) =>
        /\ formatted_time = <<"0", "4", ":", "1", "2", ":", "0", "0">>
        /\ initial_energy = 2080
        /\ total_calories_burned = 2940
        /\ stops_count = 10
        /\ total_fuel_added = 870
        /\ final_energy = 10

C8_Witness == Done /\ AtDefaults /\ hours = 4 /\ Len(fueling_points) = 10

\* C9: the reserve plotted at the k-th fueling stop, at p, is initial_energy +
\* k * fuel_kcal - weight * p: the stop counts itself, as stop_count(p) does.
C9_StopEnergyCountsItself ==
    Done =>
        /\ Len(stops_energy) = Len(fueling_points)
        /\ \A k \in 1..Len(fueling_points) :
              /\ fueling_points[k] = StopPosition(k)
              /\ stops_energy[k] =
                    initial_energy + k * fuel_kcal - weight * StopPosition(k)
              /\ stops_energy[k] =
                    initial_energy + StopCountAt(StopPosition(k)) * fuel_kcal
                    - weight * StopPosition(k)

C9_Witness ==
    /\ Done /\ Len(stops_energy) >= 3
    /\ stops_energy[3] = initial_energy + 3 * fuel_kcal - weight * StopPosition(3)

\* C10: with fuel_start < distance the list is not empty, stops_count >= 1, and
\* stops_count exceeds the length of the list by 1 when distance - fuel_start is a
\* whole multiple of fuel_interval (a stop at the finish is counted, not listed),
\* by 0 otherwise.
C10_CountExceedsListAtFinish ==
    (Done /\ fuel_start < distance) =>
        /\ Len(fueling_points) >= 1
        /\ stops_count >= 1
        /\ stops_count - Len(fueling_points) \in {0, 1}
        /\ (stops_count - Len(fueling_points) = 1) <=>
              (\E m \in 1..distance : distance - fuel_start = m * fuel_interval)

C10_Witness ==
    /\ Done /\ fuel_start < distance
    /\ stops_count = Len(fueling_points) + 1
    /\ total_fuel_added = (Len(fueling_points) + 1) * fuel_kcal

====
